---- MODULE Spec2Model ----
(***************************************************************************)
(* Verification model of the hft-scalping-bot runtime shell.               *)
(*                                                                         *)
(*   SettingsSpec  the bot_settings key/value store of app/database.py     *)
(*                 under concurrent set_bot_setting callers                *)
(*   Spec          the ScalpingBot supervisor of app/main.py: main(),      *)
(*                 __init__, signal_handler, shutdown, run                 *)
(*   FairSpec      Spec with the fairness the asyncio event loop gives     *)
(***************************************************************************)
EXTENDS Naturals, Integers, Sequences, FiniteSets, TLC

\* ------------------------------------------------------------------ bounds
NumCallers == 3
NumKeys == 2
NumValues == 2

Callers == 1..NumCallers
Keys == 1..NumKeys
Values == 1..NumValues

MaxSignals == 2
MaxWakeups == 2

\* shutdown() invocations: 0 is the one awaited by run(), 1..MaxSignals are the
\* tasks created by signal_handler
ShutdownIds == 0..MaxSignals

VARIABLES
    bot_settings,   \* committed rows of table bot_settings: [id, key, value, updated_at]
    clock,          \* datetime.utcnow(), a logical time that ticks on every write
    writer,         \* session holding the database write lock, 0 when it is free
    spc,            \* per caller: position inside set_bot_setting
    sarg,           \* per caller: the (key, value) arguments of its call
    srow,           \* per caller: result of the existence SELECT ("none" before it)
    env,            \* the process environment at launch (after load_dotenv)
    mpc,            \* main thread / run() task: the statement it is at or awaiting
    exitCode,       \* process exit status, -1 while the process lives
    exitVia,        \* which statement ended the process
    handlers,       \* signal dispositions: "default" or "signal_handler"
    engine,         \* self.trading_engine: none, constructed, running, stopped
    serverTask,     \* the task running uvicorn server.serve()
    telegramThread, \* the daemon thread running telegram_bot.run_polling
    sd,             \* per shutdown() invocation: its progress
    stopLog,        \* subsystems that were sent stop, in order
    sigCount,       \* signals delivered so far
    handlerCalls,   \* invocations of signal_handler
    fatalFrom,      \* the step whose exception run() caught, or "none"
    startupNotify,  \* outcome of the "Bot Started" notification
    crashNotify,    \* outcome of the "Bot Crashed" notification
    wakeups,        \* rounds of the keep-alive loop (asyncio.sleep(3600)), modulo MaxWakeups + 1
    trades,         \* rows of table trades, in insertion order: [id, status, quantity, opened_at]
    schema,         \* the tables of Base.metadata exist in the database
    dataDir,        \* the directory ./data exists
    dbInData,       \* DATABASE_URL names a SQLite file inside ./data
    lres,           \* the last store operation and its outcome
    listOut,        \* the rows the last get_recent_trades returned
    larg            \* the arguments of the last store operation: id, data, limit; after
                    \* get_recent_trades data is the record created just before it

settingsVars == <<bot_settings, clock, writer, spc, sarg, srow>>

botVars == <<env, mpc, exitCode, exitVia, handlers, engine, serverTask, telegramThread,
             sd, stopLog, sigCount, handlerCalls, fatalFrom, startupNotify,
             crashNotify, wakeups>>

ledgerVars == <<trades, schema, dataDir, dbInData, lres, listOut, larg>>

vars == <<bot_settings, clock, writer, spc, sarg, srow,
          env, mpc, exitCode, exitVia, handlers, engine, serverTask, telegramThread,
          sd, stopLog, sigCount, handlerCalls, fatalFrom, startupNotify,
          crashNotify, wakeups,
          trades, schema, dataDir, dbInData, lres, listOut, larg>>

\* ---------------------------------------------------------- trade ledger
NumTradeIds == 2
NumTimes == 2
NumQty == 1

TradeIds == 1..NumTradeIds
Times == 1..NumTimes
Quantities == 1..NumQty
Statuses == {"Open", "Closed", "Cancelled"}

\* the columns of TradeLog that the model carries
Columns == {"id", "status", "quantity", "opened_at"}

\* trade_data of log_trade: one value per column
Records == [id : TradeIds, status : Statuses, quantity : Quantities, opened_at : Times]

\* update_data of update_trade, a dict over some of the columns, written as a
\* record in which a column that is not a key of the dict holds Unset(column)
Unset(c) == IF c = "status" THEN "-" ELSE 0

Supplied(d, c) == d[c] # Unset(c)

UpdateData ==
    {d \in [id : TradeIds \cup {0}, status : Statuses \cup {"-"},
            quantity : Quantities \cup {0}, opened_at : Times \cup {0}] :
        \E c \in Columns : Supplied(d, c)}

\* no record: what a caller holds before any record was created
NoRecord == [id |-> 0, status |-> "-", quantity |-> 0, opened_at |-> 0]

NoArgs == [id |-> 0, data |-> NoRecord, limit |-> 0]

IdsOf(rows) == {rows[k].id : k \in 1..Len(rows)}

Outcome(op, out) == [op |-> op, out |-> out]

\* the record that the operation just before, a log_trade that returned True, stored
JustCreated ==
    IF lres.op = "log_trade" /\ lres.out = "True" THEN larg.data ELSE NoRecord

\* the tables exist, nothing is stored and no store operation has run
StoreInitialised ==
    /\ trades = <<>>
    /\ schema = TRUE
    /\ dataDir = TRUE
    /\ dbInData = TRUE
    /\ lres = [op |-> "none", out |-> "none"]
    /\ listOut = <<>>
    /\ larg = NoArgs

\* init_db(): create_all on a connection of the engine, then os.makedirs("data").
\* The connection of a SQLite file inside ./data cannot be opened while ./data is
\* missing, and the exception leaves init_db before makedirs runs.
init_db ==
    /\ IF dbInData /\ ~dataDir
       THEN /\ lres' = Outcome("init_db", "raised")
            /\ UNCHANGED <<schema, dataDir>>
       ELSE /\ lres' = Outcome("init_db", "done")
            /\ schema' = TRUE
            /\ dataDir' = TRUE
    /\ listOut' = <<>>
    /\ larg' = NoArgs
    /\ UNCHANGED <<trades, dbInData>>
    /\ UNCHANGED <<settingsVars, botVars>>

\* TradeLog.id is the primary key: an INSERT, or an UPDATE that sets id, of an id
\* another row holds is refused (IntegrityError)
PrimaryKeyOk_NoConstraint(rows, skip, id) == TRUE

PrimaryKeyOk(rows, skip, id) ==
    \A k \in 1..Len(rows) : k # skip => rows[k].id # id

\* UPDATE ... SET **update_data: a supplied column takes the supplied value, any
\* other column keeps the row's value
MergeColumn_Replace(row, d, c) ==
    IF Supplied(d, c) THEN d[c] ELSE IF c = "id" THEN row[c] ELSE Unset(c)

MergeColumn(row, d, c) == IF Supplied(d, c) THEN d[c] ELSE row[c]

MergeRow(row, d) ==
    [id |-> MergeColumn(row, d, "id"),
     status |-> MergeColumn(row, d, "status"),
     quantity |-> MergeColumn(row, d, "quantity"),
     opened_at |-> MergeColumn(row, d, "opened_at")]

\* WHERE TradeLog.id == trade_id: the positions of the matching rows
Matching(rows, trade_id) == {k \in 1..Len(rows) : rows[k].id = trade_id}

\* return result.rowcount > 0
Modified_Always(rowcount) == rowcount >= 0

Modified(rowcount) == rowcount > 0

\* log_trade(trade_data): session.add(TradeLog(**trade_data)); commit; return True,
\* or rollback and re-raise
log_trade(r) ==
    /\ IF schema /\ PrimaryKeyOk(trades, 0, r.id)
       THEN /\ trades' = Append(trades, r)
            /\ lres' = Outcome("log_trade", "True")
       ELSE /\ lres' = Outcome("log_trade", "raised")
            /\ UNCHANGED trades
    /\ listOut' = <<>>
    /\ larg' = [id |-> r.id, data |-> r, limit |-> 0]
    /\ UNCHANGED <<schema, dataDir, dbInData>>
    /\ UNCHANGED <<settingsVars, botVars>>

\* update_trade(trade_id, update_data): UPDATE trades SET ... WHERE id = trade_id;
\* commit; return result.rowcount > 0, or rollback and re-raise
update_trade(trade_id, d) ==
    /\ LET ks == Matching(trades, trade_id)
           new == [k \in 1..Len(trades) |->
                       IF k \in ks THEN MergeRow(trades[k], d) ELSE trades[k]]
       IN IF schema /\ \A k \in ks : PrimaryKeyOk(new, k, new[k].id)
          THEN /\ trades' = new
               /\ lres' = Outcome("update_trade",
                                  IF Modified(Cardinality(ks)) THEN "True" ELSE "False")
          ELSE /\ lres' = Outcome("update_trade", "raised")
               /\ UNCHANGED trades
    /\ listOut' = <<>>
    /\ larg' = [id |-> trade_id, data |-> d, limit |-> 0]
    /\ UNCHANGED <<schema, dataDir, dbInData>>
    /\ UNCHANGED <<settingsVars, botVars>>

\* ORDER BY opened_at DESC: row a may come before row b
OrderedBefore_Ascending(a, b) == a.opened_at <= b.opened_at

OrderedBefore(a, b) == a.opened_at >= b.opened_at

Min(a, b) == IF a <= b THEN a ELSE b

\* SELECT ... ORDER BY opened_at DESC LIMIT limit: the first rows of an ordering of
\* the table by opened_at descending. The statement names no second sort key, so
\* rows of equal opened_at may come in either order.
RecentOrders(rows, limit) ==
    LET n == Min(limit, Len(rows))
        picks == {f \in [1..n -> 1..Len(rows)] :
                     /\ \A i, j \in 1..n : i # j => f[i] # f[j]
                     /\ \A i, j \in 1..n : i < j => OrderedBefore(rows[f[i]], rows[f[j]])
                     /\ \A i \in 1..n, k \in 1..Len(rows) :
                            (\A j \in 1..n : f[j] # k) => OrderedBefore(rows[f[i]], rows[k])}
    IN {[j \in 1..n |-> rows[f[j]]] : f \in picks}

\* get_recent_trades(limit): return result.fetchall()
get_recent_trades(limit) ==
    /\ IF schema
       THEN /\ listOut' \in RecentOrders(trades, limit)
            /\ lres' = Outcome("get_recent_trades", "rows")
       ELSE /\ listOut' = <<>>
            /\ lres' = Outcome("get_recent_trades", "raised")
    /\ larg' = [id |-> 0, data |-> JustCreated, limit |-> limit]
    /\ UNCHANGED <<trades, schema, dataDir, dbInData>>
    /\ UNCHANGED <<settingsVars, botVars>>

\* a ledger whose rows were inserted in the order of their ids
RECURSIVE LedgersOver(_)
LedgersOver(n) ==
    IF n = 0 THEN {<<>>}
    ELSE LET rest == LedgersOver(n - 1)
         IN rest \cup {Append(l, r) : l \in rest, r \in {x \in Records : x.id = n}}

\* ------------------------------------------------------- settings store
RowsWithKey(rows, k) == {r \in rows : r.key = k}

\* BotSettings.id: integer primary key, assigned max+1 on insert
NextSettingId(rows) ==
    IF rows = {} THEN 1
    ELSE 1 + (CHOOSE m \in {r.id : r \in rows} : \A r \in rows : r.id <= m)

\* BotSettings.key is declared unique=True: an INSERT of a present key is refused
UniqueKeyOk_NoConstraint(rows, k) == TRUE

UniqueKeyOk(rows, k) == RowsWithKey(rows, k) = {}

\* UPDATE bot_settings SET value = v WHERE key = k (updated_at: onupdate=utcnow)
UpdateRows_EveryRow(rows, k, v, now) ==
    {[r EXCEPT !.value = v, !.updated_at = now] : r \in rows}

UpdateRows(rows, k, v, now) ==
    {IF r.key = k THEN [r EXCEPT !.value = v, !.updated_at = now] ELSE r : r \in rows}

\* INSERT of BotSettings(key=k, value=v) (updated_at: default=utcnow)
InsertRow(rows, k, v, now) ==
    rows \cup {[id |-> NextSettingId(rows), key |-> k, value |-> v, updated_at |-> now]}

\* get_bot_setting: the value of the first row with the key, or "absent" (None)
get_bot_setting(k) ==
    IF RowsWithKey(bot_settings, k) = {} THEN "absent"
    ELSE (CHOOSE r \in RowsWithKey(bot_settings, k) :
            \A q \in RowsWithKey(bot_settings, k) : r.id <= q.id).value

SettingsInit ==
    /\ bot_settings = {}
    /\ clock = 0
    /\ writer = 0
    /\ spc = [p \in Callers |-> "idle"]
    /\ sarg = [p \in Callers |-> [key |-> 1, value |-> 1]]
    /\ srow = [p \in Callers |-> "none"]

\* a caller enters set_bot_setting(key, value) and opens its session
SetCall(p, k, v) ==
    /\ spc[p] = "idle"
    /\ spc' = [spc EXCEPT ![p] = "select"]
    /\ sarg' = [sarg EXCEPT ![p] = [key |-> k, value |-> v]]
    /\ UNCHANGED <<bot_settings, clock, writer, srow>>
    /\ UNCHANGED <<botVars, ledgerVars>>

\* result = SELECT ... WHERE key = key; row = result.fetchone(); branch on row
SetSelect(p) ==
    /\ spc[p] = "select"
    /\ LET found == RowsWithKey(bot_settings, sarg[p].key) # {}
       IN /\ srow' = [srow EXCEPT ![p] = IF found THEN "found" ELSE "missing"]
          /\ spc' = [spc EXCEPT ![p] = IF found THEN "update" ELSE "add"]
    /\ UNCHANGED <<bot_settings, clock, writer, sarg>>
    /\ UNCHANGED <<botVars, ledgerVars>>

\* row present: session.execute(UPDATE ...) takes the write lock, not yet committed
SetUpdate(p) ==
    /\ spc[p] = "update"
    /\ writer = 0
    /\ writer' = p
    /\ spc' = [spc EXCEPT ![p] = "commit_update"]
    /\ UNCHANGED <<bot_settings, clock, sarg, srow>>
    /\ UNCHANGED <<botVars, ledgerVars>>

\* row absent: session.add(BotSettings(key, value)), pending in the session only
SetAdd(p) ==
    /\ spc[p] = "add"
    /\ spc' = [spc EXCEPT ![p] = "commit_add"]
    /\ UNCHANGED <<bot_settings, clock, writer, sarg, srow>>
    /\ UNCHANGED <<botVars, ledgerVars>>

\* session.commit() after the UPDATE: the change becomes visible, lock released
SetCommitUpdate(p) ==
    /\ spc[p] = "commit_update"
    /\ writer = p
    /\ bot_settings' = UpdateRows(bot_settings, sarg[p].key, sarg[p].value, clock + 1)
    /\ clock' = clock + 1
    /\ writer' = 0
    /\ spc' = [spc EXCEPT ![p] = "returned"]
    /\ UNCHANGED <<sarg, srow>>
    /\ UNCHANGED <<botVars, ledgerVars>>

\* session.commit() after the add: flushes the INSERT and commits it, or the
\* unique constraint refuses it (IntegrityError) and control enters the except
SetCommitAdd(p) ==
    /\ spc[p] = "commit_add"
    /\ writer = 0
    /\ IF UniqueKeyOk(bot_settings, sarg[p].key)
       THEN /\ bot_settings' = InsertRow(bot_settings, sarg[p].key, sarg[p].value, clock + 1)
            /\ clock' = clock + 1
            /\ spc' = [spc EXCEPT ![p] = "returned"]
       ELSE /\ spc' = [spc EXCEPT ![p] = "rollback"]
            /\ UNCHANGED <<bot_settings, clock>>
    /\ UNCHANGED <<writer, sarg, srow>>
    /\ UNCHANGED <<botVars, ledgerVars>>

\* except Exception: await session.rollback(); raise e
SetRollback(p) ==
    /\ spc[p] = "rollback"
    /\ spc' = [spc EXCEPT ![p] = "raised"]
    /\ UNCHANGED <<bot_settings, clock, writer, sarg, srow>>
    /\ UNCHANGED <<botVars, ledgerVars>>

\* ------------------------------------------------------------ supervisor
\* os.getenv of a mandatory credential: unset, set to the empty string, or set
EnvVals == {"absent", "", "set"}
\* config.TELEGRAM_BOT_TOKEN / TELEGRAM_CHAT_ID: os.getenv(name, '') is '' or a value
TeleVals == {"", "set"}
\* numeric variables read through int()/float(): unset (default used) or not a number
NumVals == {"absent", "garbage"}

\* outcomes of an awaited call into a collaborator
CallOutcomes == {"ok", "raise"}
\* how an invocation of trading_engine.stop() will end: it returns, it raises,
\* or it never completes
StopOutcomes == {"stop_returns", "stop_raises", "stop_never"}

SigKinds == {"SIGINT", "SIGTERM"}

\* _validate_config: missing = [var for var in required_vars if not os.getenv(var)]
Missing_OnlyUnset(e) ==
    {v \in {"BYBIT_API_KEY", "BYBIT_API_SECRET"} : e[v] = "absent"}

Missing(e) ==
    {v \in {"BYBIT_API_KEY", "BYBIT_API_SECRET"} : e[v] \in {"absent", ""}}

\* if self.config.TELEGRAM_BOT_TOKEN and self.config.TELEGRAM_CHAT_ID
NotifyConfigured == env.TELEGRAM_BOT_TOKEN # "" /\ env.TELEGRAM_CHAT_ID # ""

Exited == mpc = "exited"

\* the event loop of asyncio.run is running (asyncio.create_task is possible)
LoopRunning ==
    mpc \in {"run_start", "init_db", "telegram", "engine_start", "notify_start",
             "sleeping", "fatal", "notify_crash", "shutdown", "shutdown_wait"}

\* run() is suspended at an await, so the loop may run another task
MainSuspended ==
    mpc \in {"init_db", "engine_start", "notify_start", "sleeping", "notify_crash",
             "shutdown_wait"}

BotInit ==
    /\ env \in [BYBIT_API_KEY : EnvVals, BYBIT_API_SECRET : EnvVals,
                TELEGRAM_BOT_TOKEN : TeleVals, TELEGRAM_CHAT_ID : TeleVals,
                LEVERAGE : NumVals, HEALTH_CHECK_PORT : NumVals]
    /\ mpc = "from_env"
    /\ exitCode = -1
    /\ exitVia = "none"
    /\ handlers = [s \in SigKinds |-> "default"]
    /\ engine = "none"
    /\ serverTask = "none"
    /\ telegramThread = "none"
    /\ sd = [i \in ShutdownIds |-> "none"]
    /\ stopLog = <<>>
    /\ sigCount = 0
    /\ handlerCalls = 0
    /\ fatalFrom = "none"
    /\ startupNotify = "none"
    /\ crashNotify = "none"
    /\ wakeups = 0

\* The process ends with status code. asyncio.run's teardown cancels the tasks
\* still pending on the loop; nothing stops the daemon thread.
ExitProcess(code, via, sdNow) ==
    /\ mpc' = "exited"
    /\ exitCode' = code
    /\ exitVia' = via
    /\ serverTask' = IF serverTask = "serving" THEN "cancelled" ELSE serverTask
    /\ sd' = [i \in ShutdownIds |->
                IF sdNow[i] \in {"created"} \cup StopOutcomes THEN "cancelled"
                ELSE sdNow[i]]

\* main(): except Exception as e: logger.error(...); sys.exit(1)
MainExcept_ExitZero == ExitProcess(0, "main_except", sd)

MainExcept == ExitProcess(1, "main_except", sd)

\* __init__: self.config = TradingConfig.from_env(); int()/float() of a tunable
LoadConfig ==
    /\ mpc = "from_env"
    /\ IF env.LEVERAGE = "garbage"
       THEN /\ MainExcept
       ELSE /\ mpc' = "validate"
            /\ UNCHANGED <<exitCode, exitVia, serverTask, sd>>
    /\ UNCHANGED <<env, handlers, engine, telegramThread, stopLog, sigCount,
                   handlerCalls, fatalFrom, startupNotify, crashNotify, wakeups>>
    /\ UNCHANGED <<settingsVars, ledgerVars>>

\* __init__: self._validate_config(): sys.exit(1) when a credential is missing
ValidateConfig ==
    /\ mpc = "validate"
    /\ IF Missing(env) # {}
       THEN /\ ExitProcess(1, "validate", sd)
       ELSE /\ mpc' = "construct"
            /\ UNCHANGED <<exitCode, exitVia, serverTask, sd>>
    /\ UNCHANGED <<env, handlers, engine, telegramThread, stopLog, sigCount,
                   handlerCalls, fatalFrom, startupNotify, crashNotify, wakeups>>
    /\ UNCHANGED <<settingsVars, ledgerVars>>

\* __init__: self.trading_engine = TradingEngine(...); self.telegram_bot = TelegramBot(...)
Construct(outcome) ==
    /\ mpc = "construct"
    /\ IF outcome = "raise"
       THEN /\ MainExcept
            /\ UNCHANGED engine
       ELSE /\ mpc' = "install_sigint"
            /\ engine' = "constructed"
            /\ UNCHANGED <<exitCode, exitVia, serverTask, sd>>
    /\ UNCHANGED <<env, handlers, telegramThread, stopLog, sigCount,
                   handlerCalls, fatalFrom, startupNotify, crashNotify, wakeups>>
    /\ UNCHANGED <<settingsVars, ledgerVars>>

\* __init__: signal.signal(signal.SIGINT, self.signal_handler)
InstallSigint ==
    /\ mpc = "install_sigint"
    /\ handlers' = [handlers EXCEPT !["SIGINT"] = "signal_handler"]
    /\ mpc' = "install_sigterm"
    /\ UNCHANGED <<env, exitCode, exitVia, engine, serverTask, telegramThread, sd,
                   stopLog, sigCount, handlerCalls, fatalFrom, startupNotify,
                   crashNotify, wakeups>>
    /\ UNCHANGED <<settingsVars, ledgerVars>>

\* __init__: signal.signal(signal.SIGTERM, self.signal_handler)
InstallSigterm ==
    /\ mpc = "install_sigterm"
    /\ handlers' = [handlers EXCEPT !["SIGTERM"] = "signal_handler"]
    /\ mpc' = "port"
    /\ UNCHANGED <<env, exitCode, exitVia, engine, serverTask, telegramThread, sd,
                   stopLog, sigCount, handlerCalls, fatalFrom, startupNotify,
                   crashNotify, wakeups>>
    /\ UNCHANGED <<settingsVars, ledgerVars>>

\* __init__: self.health_check_port = int(os.getenv('HEALTH_CHECK_PORT', 8080))
ReadPort ==
    /\ mpc = "port"
    /\ IF env.HEALTH_CHECK_PORT = "garbage"
       THEN /\ MainExcept
       ELSE /\ mpc' = "asyncio_run"
            /\ UNCHANGED <<exitCode, exitVia, serverTask, sd>>
    /\ UNCHANGED <<env, handlers, engine, telegramThread, stopLog, sigCount,
                   handlerCalls, fatalFrom, startupNotify, crashNotify, wakeups>>
    /\ UNCHANGED <<settingsVars, ledgerVars>>

\* main(): asyncio.run(bot.run()): the loop starts and run() logs its banner
AsyncioRun ==
    /\ mpc = "asyncio_run"
    /\ mpc' = "run_start"
    /\ UNCHANGED <<env, exitCode, exitVia, handlers, engine, serverTask,
                   telegramThread, sd, stopLog, sigCount, handlerCalls, fatalFrom,
                   startupNotify, crashNotify, wakeups>>
    /\ UNCHANGED <<settingsVars, ledgerVars>>

\* Delivery of SIGINT or SIGTERM to the process.
\*  - default disposition: SIGTERM kills the process; SIGINT raises
\*    KeyboardInterrupt in the main thread, which main() catches and returns
\*  - signal_handler: asyncio.create_task(self.shutdown()) schedules a task on the
\*    running loop; with no running loop it raises RuntimeError, which unwinds
\*    the main thread into main()'s except Exception
Signal(sig) ==
    /\ ~Exited
    /\ sigCount < MaxSignals
    /\ sigCount' = sigCount + 1
    /\ IF handlers[sig] = "default"
       THEN /\ IF sig = "SIGINT"
               THEN ExitProcess(0, "keyboard_interrupt", sd)
               ELSE ExitProcess(128 + 15, "killed", sd)
            /\ UNCHANGED handlerCalls
       ELSE /\ handlerCalls' = handlerCalls + 1
            /\ IF LoopRunning
               THEN /\ sd' = [sd EXCEPT ![sigCount + 1] = "created"]
                    /\ UNCHANGED <<mpc, exitCode, exitVia, serverTask>>
               ELSE MainExcept
    /\ UNCHANGED <<env, handlers, engine, telegramThread, stopLog, fatalFrom,
                   startupNotify, crashNotify, wakeups>>
    /\ UNCHANGED <<settingsVars, ledgerVars>>

\* shutdown() up to its await: log, then await self.trading_engine.stop() when the
\* attribute exists, otherwise straight on to sys.exit(0).  i = 0 is the call
\* awaited by run(); i > 0 is a task the loop starts while run() is suspended.
ShutdownBegin(i, will) ==
    /\ IF i = 0 THEN mpc = "shutdown" ELSE sd[i] = "created" /\ MainSuspended
    /\ IF engine # "none"
       THEN /\ stopLog' = Append(stopLog, "engine")
            /\ sd' = [sd EXCEPT ![i] = will]
            /\ mpc' = IF i = 0 THEN "shutdown_wait" ELSE mpc
            /\ UNCHANGED <<exitCode, exitVia, serverTask>>
       ELSE /\ ExitProcess(0, "shutdown", [sd EXCEPT ![i] = "exited"])
            /\ UNCHANGED stopLog
    /\ UNCHANGED <<env, handlers, engine, telegramThread, sigCount, handlerCalls,
                   fatalFrom, startupNotify, crashNotify, wakeups>>
    /\ UNCHANGED <<settingsVars, ledgerVars>>

\* trading_engine.stop() returned: logger.info("Shutdown complete"); sys.exit(0).
\* SystemExit leaves the task, the loop and asyncio.run, and main() does not catch it.
ShutdownStopReturns(i) ==
    /\ sd[i] = "stop_returns"
    /\ MainSuspended
    /\ engine' = "stopped"
    /\ ExitProcess(0, "shutdown", [sd EXCEPT ![i] = "exited"])
    /\ UNCHANGED <<env, handlers, telegramThread, stopLog, sigCount, handlerCalls,
                   fatalFrom, startupNotify, crashNotify, wakeups>>
    /\ UNCHANGED <<settingsVars, ledgerVars>>

\* trading_engine.stop() raised.  In a signal's task the exception is stored in the
\* task and nobody retrieves it.  In run() it is raised inside the except block,
\* leaves run() and asyncio.run, and main() turns it into sys.exit(1).
ShutdownStopRaises(i) ==
    /\ sd[i] = "stop_raises"
    /\ MainSuspended
    /\ IF i = 0
       THEN ExitProcess(1, "main_except", [sd EXCEPT ![i] = "failed"])
       ELSE /\ sd' = [sd EXCEPT ![i] = "failed"]
            /\ UNCHANGED <<mpc, exitCode, exitVia, serverTask>>
    /\ UNCHANGED <<env, handlers, engine, telegramThread, stopLog, sigCount,
                   handlerCalls, fatalFrom, startupNotify, crashNotify, wakeups>>
    /\ UNCHANGED <<settingsVars, ledgerVars>>

\* run(): except Exception as e: logger.error("Fatal error ...")
Caught(step) ==
    /\ mpc' = "fatal"
    /\ fatalFrom' = step

\* run(): await self.start_health_check(): builds the app and the uvicorn server,
\* asyncio.create_task(server.serve()); then run() calls init_db() and awaits it
StartHealthCheck(outcome) ==
    /\ mpc = "run_start"
    /\ IF outcome = "raise"
       THEN /\ Caught("health")
            /\ UNCHANGED serverTask
       ELSE /\ serverTask' = "serving"
            /\ mpc' = "init_db"
            /\ UNCHANGED fatalFrom
    /\ UNCHANGED <<env, exitCode, exitVia, handlers, engine, telegramThread, sd,
                   stopLog, sigCount, handlerCalls, startupNotify, crashNotify,
                   wakeups>>
    /\ UNCHANGED <<settingsVars, ledgerVars>>

\* run(): from app.database import init_db; await init_db() completes or raises
InitDbDone(outcome) ==
    /\ mpc = "init_db"
    /\ IF outcome = "raise"
       THEN Caught("init_db")
       ELSE /\ mpc' = "telegram"
            /\ UNCHANGED fatalFrom
    /\ UNCHANGED <<env, exitCode, exitVia, handlers, engine, serverTask,
                   telegramThread, sd, stopLog, sigCount, handlerCalls,
                   startupNotify, crashNotify, wakeups>>
    /\ UNCHANGED <<settingsVars, ledgerVars>>

\* run(): if TELEGRAM_BOT_TOKEN: start the daemon polling thread; then run()
\* calls trading_engine.start() and awaits it
StartTelegram ==
    /\ mpc = "telegram"
    /\ telegramThread' = IF env.TELEGRAM_BOT_TOKEN # "" THEN "polling" ELSE telegramThread
    /\ mpc' = "engine_start"
    /\ UNCHANGED <<env, exitCode, exitVia, handlers, engine, serverTask, sd,
                   stopLog, sigCount, handlerCalls, fatalFrom, startupNotify,
                   crashNotify, wakeups>>
    /\ UNCHANGED <<settingsVars, ledgerVars>>

\* run(): await self.trading_engine.start() completes or raises; on success run()
\* goes on to the startup notification, or straight to the keep-alive loop
EngineStartDone(outcome) ==
    /\ mpc = "engine_start"
    /\ IF outcome = "raise"
       THEN /\ Caught("engine_start")
            /\ UNCHANGED engine
       ELSE /\ engine' = IF engine = "constructed" THEN "running" ELSE engine
            /\ mpc' = IF NotifyConfigured THEN "notify_start" ELSE "sleeping"
            /\ UNCHANGED fatalFrom
    /\ UNCHANGED <<env, exitCode, exitVia, handlers, serverTask, telegramThread,
                   sd, stopLog, sigCount, handlerCalls, startupNotify, crashNotify,
                   wakeups>>
    /\ UNCHANGED <<settingsVars, ledgerVars>>

\* run(): await self.telegram_bot.send_notification("Bot Started ...") inside the try
NotifyStartDone(outcome) ==
    /\ mpc = "notify_start"
    /\ IF outcome = "raise"
       THEN /\ startupNotify' = "failed"
            /\ Caught("notify_start")
       ELSE /\ startupNotify' = "sent"
            /\ mpc' = "sleeping"
            /\ UNCHANGED fatalFrom
    /\ UNCHANGED <<env, exitCode, exitVia, handlers, engine, serverTask,
                   telegramThread, sd, stopLog, sigCount, handlerCalls,
                   crashNotify, wakeups>>
    /\ UNCHANGED <<settingsVars, ledgerVars>>

\* run(): while True: await asyncio.sleep(3600).  The loop never ends by itself;
\* its rounds are counted modulo MaxWakeups + 1.
KeepAlive ==
    /\ mpc = "sleeping"
    /\ wakeups' = (wakeups + 1) % (MaxWakeups + 1)
    /\ UNCHANGED <<env, mpc, exitCode, exitVia, handlers, engine, serverTask,
                   telegramThread, sd, stopLog, sigCount, handlerCalls, fatalFrom,
                   startupNotify, crashNotify>>
    /\ UNCHANGED <<settingsVars, ledgerVars>>

\* run(), except block: send the crash notification if configured, else shutdown
FatalError ==
    /\ mpc = "fatal"
    /\ mpc' = IF NotifyConfigured THEN "notify_crash" ELSE "shutdown"
    /\ UNCHANGED <<env, exitCode, exitVia, handlers, engine, serverTask,
                   telegramThread, sd, stopLog, sigCount, handlerCalls, fatalFrom,
                   startupNotify, crashNotify, wakeups>>
    /\ UNCHANGED <<settingsVars, ledgerVars>>

\* run(), except block: await send_notification("Bot Crashed ...").  If it raises,
\* the exception leaves run() before shutdown() is called: main() exits with 1.
NotifyCrashDone(outcome) ==
    /\ mpc = "notify_crash"
    /\ IF outcome = "raise"
       THEN /\ crashNotify' = "failed"
            /\ MainExcept
       ELSE /\ crashNotify' = "sent"
            /\ mpc' = "shutdown"
            /\ UNCHANGED <<exitCode, exitVia, serverTask, sd>>
    /\ UNCHANGED <<env, handlers, engine, telegramThread, stopLog, sigCount,
                   handlerCalls, fatalFrom, startupNotify, wakeups>>
    /\ UNCHANGED <<settingsVars, ledgerVars>>

\* the uvicorn task created by start_health_check ends with an exception: it is
\* stored in the task, whose reference nobody kept
ServerFails ==
    /\ serverTask = "serving"
    /\ MainSuspended
    /\ serverTask' = "failed"
    /\ UNCHANGED <<env, mpc, exitCode, exitVia, handlers, engine, telegramThread,
                   sd, stopLog, sigCount, handlerCalls, fatalFrom, startupNotify,
                   crashNotify, wakeups>>
    /\ UNCHANGED <<settingsVars, ledgerVars>>

\* telegram_bot.run_polling raises in its daemon thread: the thread ends
TelegramDies ==
    /\ telegramThread = "polling"
    /\ ~Exited
    /\ telegramThread' = "died"
    /\ UNCHANGED <<env, mpc, exitCode, exitVia, handlers, engine, serverTask,
                   sd, stopLog, sigCount, handlerCalls, fatalFrom, startupNotify,
                   crashNotify, wakeups>>
    /\ UNCHANGED <<settingsVars, ledgerVars>>

\* the steps the interpreter and the event loop take on their own
Step ==
    \/ LoadConfig
    \/ ValidateConfig
    \/ \E o \in CallOutcomes : Construct(o)
    \/ InstallSigint
    \/ InstallSigterm
    \/ ReadPort
    \/ AsyncioRun
    \/ \E o \in CallOutcomes : StartHealthCheck(o)
    \/ \E o \in CallOutcomes : InitDbDone(o)
    \/ StartTelegram
    \/ \E o \in CallOutcomes : EngineStartDone(o)
    \/ \E o \in CallOutcomes : NotifyStartDone(o)
    \/ KeepAlive
    \/ FatalError
    \/ \E o \in CallOutcomes : NotifyCrashDone(o)
    \/ \E i \in ShutdownIds, w \in StopOutcomes : ShutdownBegin(i, w)
    \/ \E i \in ShutdownIds : ShutdownStopReturns(i)
    \/ \E i \in ShutdownIds : ShutdownStopRaises(i)

\* what the environment may do at any time
Environment ==
    \/ \E sig \in SigKinds : Signal(sig)
    \/ ServerFails
    \/ TelegramDies

Init ==
    /\ BotInit
    /\ SettingsInit
    /\ StoreInitialised

Next == Step \/ Environment

Spec == Init /\ [][Next]_vars

\* The interpreter keeps executing the main thread and the event loop keeps running
\* tasks that are ready: no enabled step is postponed forever.  Signals and
\* subsystem failures are not obliged to happen.
MainStep ==
    \/ LoadConfig \/ ValidateConfig \/ InstallSigint \/ InstallSigterm \/ ReadPort
    \/ AsyncioRun \/ StartTelegram \/ KeepAlive \/ FatalError
    \/ \E o \in CallOutcomes :
          \/ Construct(o) \/ StartHealthCheck(o) \/ InitDbDone(o)
          \/ EngineStartDone(o) \/ NotifyStartDone(o) \/ NotifyCrashDone(o)
    \/ \E w \in StopOutcomes : ShutdownBegin(0, w)
    \/ ShutdownStopReturns(0) \/ ShutdownStopRaises(0)

TaskStep(i) ==
    \/ \E w \in StopOutcomes : ShutdownBegin(i, w)
    \/ ShutdownStopReturns(i)
    \/ ShutdownStopRaises(i)

FairSpec ==
    /\ Spec
    /\ WF_vars(MainStep)
    /\ \A i \in 1..MaxSignals : WF_vars(TaskStep(i))

SettingsNext ==
    \/ \E p \in Callers, k \in Keys, v \in Values : SetCall(p, k, v)
    \/ \E p \in Callers : SetSelect(p)
    \/ \E p \in Callers : SetUpdate(p)
    \/ \E p \in Callers : SetAdd(p)
    \/ \E p \in Callers : SetCommitUpdate(p)
    \/ \E p \in Callers : SetCommitAdd(p)
    \/ \E p \in Callers : SetRollback(p)

\* the store on its own: the supervisor has not been launched
SettingsSpecInit ==
    /\ SettingsInit
    /\ StoreInitialised
    /\ BotInit
    /\ env.BYBIT_API_KEY = "absent" /\ env.BYBIT_API_SECRET = "absent"
    /\ env.TELEGRAM_BOT_TOKEN = "" /\ env.TELEGRAM_CHAT_ID = ""
    /\ env.LEVERAGE = "absent" /\ env.HEALTH_CHECK_PORT = "absent"

SettingsSpec == SettingsSpecInit /\ [][SettingsNext]_vars

\* set_bot_setting calls made one after the other: caller p enters once every
\* caller before it has come back, and no caller after it has started
SeqCall(p, k, v) ==
    /\ \A q \in Callers : q < p => spc[q] \in {"returned", "raised"}
    /\ \A q \in Callers : q > p => spc[q] = "idle"
    /\ SetCall(p, k, v)

SeqSettingsNext ==
    \/ \E p \in Callers, k \in Keys, v \in Values : SeqCall(p, k, v)
    \/ \E p \in Callers : SetSelect(p)
    \/ \E p \in Callers : SetUpdate(p)
    \/ \E p \in Callers : SetAdd(p)
    \/ \E p \in Callers : SetCommitUpdate(p)
    \/ \E p \in Callers : SetCommitAdd(p)

SeqSettingsSpec == SettingsSpecInit /\ [][SeqSettingsNext]_vars

\* the ledger after any number of log_trade calls, before the operation observed
LedgerInit ==
    /\ trades \in LedgersOver(NumTradeIds)
    /\ schema = TRUE
    /\ dataDir = TRUE
    /\ dbInData = TRUE
    /\ lres = [op |-> "none", out |-> "none"]
    /\ listOut = <<>>
    /\ larg = NoArgs
    /\ SettingsInit
    /\ BotInit
    /\ env.BYBIT_API_KEY = "absent" /\ env.BYBIT_API_SECRET = "absent"
    /\ env.TELEGRAM_BOT_TOKEN = "" /\ env.TELEGRAM_CHAT_ID = ""
    /\ env.LEVERAGE = "absent" /\ env.HEALTH_CHECK_PORT = "absent"

\* one log_trade on the stored ledger
CreateOnce == lres.op = "none" /\ \E r \in Records : log_trade(r)

\* one update_trade on the stored ledger
UpdateOnce ==
    lres.op = "none" /\ \E i \in TradeIds, d \in UpdateData : update_trade(i, d)

LedgerNext == CreateOnce \/ UpdateOnce

LedgerSpec == LedgerInit /\ [][LedgerNext]_vars

\* the store as a process finds it: no table, or the tables of an earlier run;
\* ./data present or not; the database file in ./data or elsewhere
StoreInit ==
    /\ trades = <<>>
    /\ schema \in BOOLEAN
    /\ dataDir \in BOOLEAN
    /\ dbInData \in BOOLEAN
    /\ (dbInData /\ ~dataDir) => ~schema
    /\ lres = [op |-> "none", out |-> "none"]
    /\ listOut = <<>>
    /\ larg = NoArgs
    /\ SettingsInit
    /\ BotInit
    /\ env.BYBIT_API_KEY = "absent" /\ env.BYBIT_API_SECRET = "absent"
    /\ env.TELEGRAM_BOT_TOKEN = "" /\ env.TELEGRAM_CHAT_ID = ""
    /\ env.LEVERAGE = "absent" /\ env.HEALTH_CHECK_PORT = "absent"

\* the trades that the listing is observed on: open trades of one quantity
NumListed == 3

ListedRecords ==
    [id : 1..NumListed, status : {"Open"}, quantity : {1}, opened_at : 1..NumListed]

\* ids are opaque: the k-th id that is new to the ledger is written k
LogTradeCall ==
    \E r \in ListedRecords : r.id <= Len(trades) + 1 /\ log_trade(r)

GetRecentTradesCall == \E limit \in 1..NumListed : get_recent_trades(limit)

StoreNext == init_db \/ LogTradeCall \/ GetRecentTradesCall

StoreSpec == StoreInit /\ [][StoreNext]_vars

\* ------------------------------------------------------------- properties

\* C1: in every reachable state of the settings store, whatever the interleaving
\* of concurrent set_bot_setting calls, there is at most one row per key.
C1_OneRowPerKey ==
    \A k \in Keys : Cardinality(RowsWithKey(bot_settings, k)) <= 1

\* two callers both saw the key absent and both went on to insert it
C1_Witness ==
    \E p, q \in Callers :
        /\ p # q
        /\ sarg[p].key = sarg[q].key
        /\ srow[p] = "missing" /\ srow[q] = "missing"
        /\ spc[p] = "returned" /\ spc[q] = "raised"

Finished(p) == spc[p] \in {"returned", "raised"}

\* C2: two set_bot_setting calls on the same key (no other caller touching it)
\* both complete without raising, and the stored value is the value of one of
\* them, as in a serial execution.
C2_AtomicUpsert ==
    \A p, q \in Callers :
        ( /\ p # q
          /\ Finished(p) /\ Finished(q)
          /\ sarg[p].key = sarg[q].key
          /\ \A r \in Callers \ {p, q} : spc[r] = "idle" \/ sarg[r].key # sarg[p].key )
        => /\ spc[p] = "returned"
           /\ spc[q] = "returned"
           /\ get_bot_setting(sarg[p].key) \in {sarg[p].value, sarg[q].value}

\* C3: trading_engine.stop() is invoked at most once over the whole execution,
\* however many times shutdown is triggered.
C3_StopAtMostOnce == Len(stopLog) <= 1

\* the subsystems that exist when the process ends, in the order shutdown is to
\* stop them
ExpectedStops ==
    (IF engine # "none" THEN <<"engine">> ELSE <<>>)
    \o (IF serverTask # "none" THEN <<"health">> ELSE <<>>)
    \o (IF telegramThread # "none" THEN <<"notifier">> ELSE <<>>)

\* C4: when the process exits through shutdown, stop has been sent to every
\* started subsystem in the order Engine Loop, Health Endpoint, Notifier.
C4_StopOrder == exitVia = "shutdown" => stopLog = ExpectedStops

ShutdownTriggered ==
    \/ mpc \in {"shutdown", "shutdown_wait"}
    \/ \E i \in ShutdownIds : sd[i] # "none"

\* C5: once shutdown has been triggered the process eventually exits, even if
\* trading_engine.stop() never completes.
C5_ShutdownTerminates == ShutdownTriggered ~> Exited

\* C6: the exit code is non-zero whenever the trigger was an error caught in
\* run() or a stop of a subsystem failed.
C6_ExitCodeReflectsFailure ==
    (Exited /\ (fatalFrom # "none" \/ \E i \in ShutdownIds : sd[i] = "failed"))
        => exitCode # 0

CredentialMissing ==
    \/ env.BYBIT_API_KEY \in {"absent", ""}
    \/ env.BYBIT_API_SECRET \in {"absent", ""}

\* C7: with BYBIT_API_KEY or BYBIT_API_SECRET absent or empty at launch, no
\* engine, notifier, health endpoint or signal handler ever exists, the main
\* thread never gets past _validate_config, and the process (unless a signal
\* ends it first) exits with status 1: by _validate_config's own sys.exit(1)
\* when the configuration parses.
C7_MissingCredentialExit ==
    CredentialMissing =>
        /\ mpc \in {"from_env", "validate", "exited"}
        /\ engine = "none"
        /\ serverTask = "none"
        /\ telegramThread = "none"
        /\ \A s \in SigKinds : handlers[s] = "default"
        /\ stopLog = <<>>
        /\ handlerCalls = 0
        /\ (Exited /\ sigCount = 0) =>
              /\ exitCode = 1
              /\ (env.LEVERAGE = "absent" => exitVia = "validate")

\* an empty (not unset) key, everything else in order: _validate_config exits
C7_Witness ==
    /\ env.BYBIT_API_KEY = ""
    /\ env.BYBIT_API_SECRET = "set"
    /\ Exited
    /\ exitVia = "validate"
    /\ exitCode = 1

\* C8: a failed notification changes nothing: after the startup notification
\* fails the supervisor is in its keep-alive loop and no error is being handled,
\* and a process that ends after the crash notification failed has invoked
\* trading_engine.stop().
C8_NotificationNeverEscalated ==
    /\ (startupNotify = "failed" /\ sigCount = 0)
          => (mpc = "sleeping" /\ fatalFrom = "none")
    /\ (crashNotify = "failed" /\ Exited /\ sigCount = 0) => stopLog # <<>>

\* C9: after the health server task or the notifier thread has failed, the
\* supervisor eventually enters shutdown.
C9_FailureIsFatal ==
    (serverTask = "failed" \/ telegramThread = "died") ~> (ShutdownTriggered \/ Exited)

\* C10: a signal handled by signal_handler, delivered once both handlers are
\* installed, leads to shutdown(): a process that has ended after such a signal
\* ended through shutdown and invoked trading_engine.stop().
C10_SignalLeadsToShutdown ==
    ( /\ Exited
      /\ handlerCalls > 0
      /\ \A s \in SigKinds : handlers[s] = "signal_handler" )
    => (exitVia = "shutdown" /\ stopLog # <<>>)


\* the step is an update_trade call whose trade_id matches no row
UpdateOfMissingId == lres'.op = "update_trade" /\ larg'.id \notin IdsOf(trades)

UniqueIds == \A j, k \in 1..Len(trades) : trades[j].id = trades[k].id => j = k

\* C12: log_trade of a record whose id is already in the ledger raises and leaves
\* the ledger as it was, every field of the stored record included; and in every
\* reachable state no two rows of the ledger hold the same id.
C12_DuplicateKeyRejected ==
    /\ []UniqueIds
    /\ [][(lres'.op = "log_trade" /\ larg'.id \in IdsOf(trades))
            => (lres'.out = "raised" /\ trades' = trades)]_vars

C12_Witness ==
    /\ lres.op = "log_trade"
    /\ lres.out = "raised"
    /\ \E k \in 1..Len(trades) : trades[k].id = larg.id /\ trades[k] # larg.data

\* C13: after an update_trade that returned True, in the row of the given id each
\* supplied column holds the supplied value and each other column holds what it
\* held before; every other row is what it was.
C13_PartialMerge ==
    [][(lres'.op = "update_trade" /\ lres'.out = "True") =>
          /\ Len(trades') = Len(trades)
          /\ \A k \in 1..Len(trades) :
                IF trades[k].id = larg'.id
                THEN \A c \in Columns :
                        trades'[k][c] = IF Supplied(larg'.data, c)
                                        THEN larg'.data[c] ELSE trades[k][c]
                ELSE trades'[k] = trades[k]]_vars

C13_Witness ==
    /\ lres.op = "update_trade"
    /\ lres.out = "True"
    /\ Len(trades) = 2
    /\ Supplied(larg.data, "status")
    /\ ~Supplied(larg.data, "id")
    /\ ~Supplied(larg.data, "opened_at")
    /\ \E k \in 1..2 : trades[k].id = larg.id /\ trades[k].status = larg.data.status

Terminal(status) == status \in {"Closed", "Cancelled"}

\* C14: once the status of a record is Closed or Cancelled, no log_trade and no
\* update_trade changes it: the record stays in the ledger with that status.
C14_StatusMonotonic ==
    [][\A k \in 1..Len(trades) :
          Terminal(trades[k].status) =>
              (k <= Len(trades') /\ trades'[k].status = trades[k].status)]_vars

\* C15: no ledger operation changes the id or the opened_at of a stored record, and
\* none removes a record.
C15_IdAndOpenedAtImmutable ==
    [][\A k \in 1..Len(trades) :
          /\ k <= Len(trades')
          /\ trades'[k].id = trades[k].id
          /\ trades'[k].opened_at = trades[k].opened_at]_vars


\* the calls on key k that have come back
Completed(k) == {p \in Callers : spc[p] \in {"returned", "raised"} /\ sarg[p].key = k}

Quiescent == \A p \in Callers : spc[p] \in {"idle", "returned", "raised"}

\* C16: when set_bot_setting calls run one after the other, none of them raises,
\* and after any number of them each key that was written has exactly one row,
\* get_bot_setting returns the value of the last call on that key, and a key that
\* was never written has no row.
C16_SequentialUpsert ==
    /\ \A p \in Callers : spc[p] \notin {"rollback", "raised"}
    /\ Quiescent =>
         \A k \in Keys :
            IF Completed(k) = {}
            THEN RowsWithKey(bot_settings, k) = {} /\ get_bot_setting(k) = "absent"
            ELSE LET last == CHOOSE p \in Completed(k) : \A q \in Completed(k) : q <= p
                 IN /\ Cardinality(RowsWithKey(bot_settings, k)) = 1
                    /\ get_bot_setting(k) = sarg[last].value

\* key k written twice with different values, another key written in between
C16_Witness ==
    \E p, q, o \in Callers :
        /\ p < o /\ o < q
        /\ spc[p] = "returned" /\ spc[o] = "returned" /\ spc[q] = "returned"
        /\ sarg[p].key = sarg[q].key
        /\ sarg[p].value # sarg[q].value
        /\ sarg[o].key # sarg[p].key
        /\ sarg[o].value # sarg[q].value
        /\ srow[q] = "found"


\* the rows of a table by opened_at descending, rows of equal opened_at in the
\* order of their insertion: position j of the result holds the row that has
\* exactly j - 1 rows before it in that order
Precedes(rows, a, b) ==
    \/ rows[a].opened_at > rows[b].opened_at
    \/ (rows[a].opened_at = rows[b].opened_at /\ a < b)

RecentByInsertion(rows, n) ==
    [j \in 1..n |->
        rows[CHOOSE a \in 1..Len(rows) :
                Cardinality({b \in 1..Len(rows) : Precedes(rows, b, a)}) = j - 1]]

Listed == lres.op = "get_recent_trades" /\ lres.out = "rows"

\* C17: get_recent_trades(limit) returns min(limit, number of rows) rows, by
\* opened_at descending, rows of equal opened_at in insertion order.
C17_RecentOrder ==
    Listed => listOut = RecentByInsertion(trades, Min(larg.limit, Len(trades)))

\* the listing asked for one row right after log_trade stored larg.data
ListedOneAfterCreate == Listed /\ larg.limit = 1 /\ larg.data # NoRecord

\* C18 as the specification states it: whatever the ledger holds, a log_trade(r)
\* that returned True followed at once by get_recent_trades(1) returns r alone.
C18_RoundTrip == ListedOneAfterCreate => listOut = <<larg.data>>

\* r was opened later than every other stored trade
OpenedLast(r) ==
    \A k \in 1..Len(trades) : trades[k].id # r.id => trades[k].opened_at < r.opened_at

\* C18, amended: a log_trade(r) that returned True followed at once by
\* get_recent_trades(1) returns r alone when r.opened_at is later than the
\* opened_at of every other stored trade.
C18_RoundTripOfLatest ==
    (ListedOneAfterCreate /\ OpenedLast(larg.data)) => listOut = <<larg.data>>

C18_Witness ==
    /\ ListedOneAfterCreate
    /\ OpenedLast(larg.data)
    /\ Len(trades) >= 2
    /\ listOut = <<larg.data>>

\* C19: init_db ends without error from every state of the store, whether or not
\* ./data and the tables exist, and leaves both present; it changes no stored
\* trade and no stored setting.
C19_InitDbAlwaysSucceeds ==
    [][lres'.op = "init_db" =>
          /\ lres'.out = "done"
          /\ schema' /\ dataDir'
          /\ trades' = trades
          /\ bot_settings' = bot_settings]_vars


\* signal_handler is installed, as it is from line 29 of __init__ on: it holds in
\* every state in which the ScalpingBot has been constructed
HandlerInstalled == handlers["SIGINT"] = "signal_handler"

\* C20: once the ScalpingBot is constructed, the process exits with status 0 only
\* from shutdown() after a call of trading_engine.stop() has returned; an exit
\* that happens with the stop skipped or unfinished (missing credentials, an
\* exception that reaches main) has a non-zero status.
C20_ExitZeroOnlyAfterStop ==
    /\ (Exited /\ exitCode = 0 /\ HandlerInstalled) =>
          /\ exitVia = "shutdown"
          /\ engine = "stopped"
          /\ stopLog # <<>>
          /\ \E i \in ShutdownIds : sd[i] = "exited"
    /\ (Exited /\ exitVia \in {"validate", "main_except"}) => exitCode # 0

\* exit with status 0 while another shutdown was still waiting for its stop()
C20_Witness ==
    /\ Exited
    /\ exitCode = 0
    /\ HandlerInstalled
    /\ engine = "stopped"
    /\ Len(stopLog) >= 2

====
